---------------------------- MODULE Spec2Model ----------------------------
(***************************************************************************)
(* A model of scripts/change-detection.py: the Komodo change detection    *)
(* (api_read, the parallel detail fetcher, normalize_value,                *)
(* compare_config and detect_changes).                                     *)
(*                                                                         *)
(* Python values are records [t, n, s, e]:                                 *)
(*   t  the Python type ("none", "str", "bool", "int", "list", "tuple",    *)
(*      "dict"; "kv" is one key/value entry of a dict),                    *)
(*   n  the number of an int, and 1/0 for the bools True/False,            *)
(*   s  the characters of a str (of the key, for a "kv" entry),            *)
(*   e  the elements of a list or tuple, the entries of a dict in          *)
(*      insertion order, the one value of a "kv" entry.                    *)
(* Strings are sequences of one-character strings, so that strip(), str(), *)
(* json.dumps() and the ordering of strings are computed, not assumed.     *)
(***************************************************************************)
EXTENDS Integers, Sequences, FiniteSets, TLC

\* ------------------------------------------------------------------------
\* Bounds of the model
\* ------------------------------------------------------------------------

\* the longest list given to normalize_value
MaxListLen == 2

\* the longest list in a response given to api_read
MaxRespLen == 2

\* the number of resource names
MaxNames == 2

\* ------------------------------------------------------------------------
\* Python values
\* ------------------------------------------------------------------------

PyNone == [t |-> "none", n |-> 0, s |-> <<>>, e |-> <<>>]

PyStr(cs) == [t |-> "str", n |-> 0, s |-> cs, e |-> <<>>]

PyInt(k) == [t |-> "int", n |-> k, s |-> <<>>, e |-> <<>>]

PyBool(b) == [t |-> "bool", n |-> IF b THEN 1 ELSE 0, s |-> <<>>, e |-> <<>>]

PyList(items) == [t |-> "list", n |-> 0, s |-> <<>>, e |-> items]

PyTuple(items) == [t |-> "tuple", n |-> 0, s |-> <<>>, e |-> items]

KV(k, v) == [t |-> "kv", n |-> 0, s |-> k, e |-> <<v>>]

\* a dict, from its entries <<KV(k1, v1), ...>> with distinct keys
PyDict(entries) == [t |-> "dict", n |-> 0, s |-> <<>>, e |-> entries]

IsStr(x) == x.t = "str"

IsDict(x) == x.t = "dict"

IsList(x) == x.t = "list"

\* bool is a subclass of int: isinstance(True, int)
IsNumber(x) == x.t \in {"bool", "int"}

RangeOf(sq) == {sq[i] : i \in 1..Len(sq)}

\* the printable ASCII characters, in code order from 32 (space) to 126
\* (code 96, the grave accent, is spelled out: no string of the model has it)
AsciiPunct ==
  << " ", "!", "\"", "#", "$", "%", "&", "'", "(", ")", "*", "+", ",", "-",
     ".", "/", "0", "1", "2", "3", "4", "5", "6", "7", "8", "9", ":", ";",
     "<", "=", ">", "?", "@" >>

AsciiUpper ==
  << "A", "B", "C", "D", "E", "F", "G", "H", "I", "J", "K", "L", "M", "N",
     "O", "P", "Q", "R", "S", "T", "U", "V", "W", "X", "Y", "Z", "[", "\\",
     "]", "^", "_", "grave" >>

AsciiLower ==
  << "a", "b", "c", "d", "e", "f", "g", "h", "i", "j", "k", "l", "m", "n",
     "o", "p", "q", "r", "s", "t", "u", "v", "w", "x", "y", "z", "{", "|",
     "}", "~" >>

Ascii == AsciiPunct \o AsciiUpper \o AsciiLower

\* ord(c)
Ord(c) == 31 + (CHOOSE i \in 1..Len(Ascii) : Ascii[i] = c)

\* a < b for two str: lexicographic in the code points
RECURSIVE StrLess(_, _)
StrLess(a, b) ==
  IF b = <<>> THEN FALSE
  ELSE IF a = <<>> THEN TRUE
  ELSE IF a[1] = b[1] THEN StrLess(Tail(a), Tail(b))
  ELSE Ord(a[1]) < Ord(b[1])

\* str.strip(): the leading and the trailing whitespace removed
RECURSIVE LStrip(_)
LStrip(cs) ==
  IF cs # <<>> /\ cs[1] = " " THEN LStrip(Tail(cs)) ELSE cs

RECURSIVE RStrip(_)
RStrip(cs) ==
  IF cs # <<>> /\ cs[Len(cs)] = " "
  THEN RStrip(SubSeq(cs, 1, Len(cs) - 1))
  ELSE cs

Strip(cs) == RStrip(LStrip(cs))

\* the decimal digits of a natural number
RECURSIVE Digits(_)
Digits(k) ==
  IF k < 10 THEN <<Ascii[17 + k]>>
  ELSE Digits(k \div 10) \o <<Ascii[17 + (k % 10)]>>

\* str(k) of an int
IntStr(k) == IF k < 0 THEN <<"-">> \o Digits(0 - k) ELSE Digits(k)

\* the concatenation of the strings of parts, sep between two of them
RECURSIVE Join(_, _)
Join(parts, sep) ==
  IF parts = <<>> THEN <<>>
  ELSE IF Len(parts) = 1 THEN parts[1]
  ELSE parts[1] \o sep \o Join(Tail(parts), sep)

\* repr(x)
RECURSIVE PyRepr(_)
PyRepr(x) ==
  CASE x.t = "none" -> <<"N", "o", "n", "e">>
    [] x.t = "str" -> <<"'">> \o x.s \o <<"'">>
    [] x.t = "bool" ->
         (IF x.n = 1 THEN <<"T", "r", "u", "e">> ELSE <<"F", "a", "l", "s", "e">>)
    [] x.t = "int" -> IntStr(x.n)
    [] x.t = "list" ->
         <<"[">> \o Join([i \in 1..Len(x.e) |-> PyRepr(x.e[i])], <<",", " ">>)
                 \o <<"]">>
    [] x.t = "tuple" ->
         <<"(">> \o Join([i \in 1..Len(x.e) |-> PyRepr(x.e[i])], <<",", " ">>)
                 \o (IF Len(x.e) = 1 THEN <<",">> ELSE <<>>) \o <<")">>
    [] x.t = "dict" ->
         <<"{">> \o Join([i \in 1..Len(x.e) |-> PyRepr(x.e[i])], <<",", " ">>)
                 \o <<"}">>
    [] x.t = "kv" -> <<"'">> \o x.s \o <<"'", ":", " ">> \o PyRepr(x.e[1])

\* str(x): a str is itself, every other value is its repr
PyToStr(x) == IF IsStr(x) THEN x.s ELSE PyRepr(x)

\* the entries of a dict sorted by key (json.dumps(..., sort_keys=True))
RECURSIVE SortEntries(_)
SortEntries(entries) ==
  IF entries = <<>> THEN <<>>
  ELSE LET least == CHOOSE i \in 1..Len(entries) :
                      \A j \in 1..Len(entries) :
                        j # i => StrLess(entries[i].s, entries[j].s)
           rest == [k \in 1..(Len(entries) - 1) |->
                      IF k < least THEN entries[k] ELSE entries[k + 1]]
       IN <<entries[least]>> \o SortEntries(rest)

\* json.dumps(x, sort_keys=True)
RECURSIVE JsonDumps(_)
JsonDumps(x) ==
  CASE x.t = "none" -> <<"n", "u", "l", "l">>
    [] x.t = "str" -> <<"\"">> \o x.s \o <<"\"">>
    [] x.t = "bool" ->
         (IF x.n = 1 THEN <<"t", "r", "u", "e">> ELSE <<"f", "a", "l", "s", "e">>)
    [] x.t = "int" -> IntStr(x.n)
    [] x.t \in {"list", "tuple"} ->
         <<"[">> \o Join([i \in 1..Len(x.e) |-> JsonDumps(x.e[i])], <<",", " ">>)
                 \o <<"]">>
    [] x.t = "dict" ->
         (LET sorted == SortEntries(x.e)
          IN <<"{">> \o Join([i \in 1..Len(sorted) |-> JsonDumps(sorted[i])],
                             <<",", " ">>)
                     \o <<"}">>)
    [] x.t = "kv" -> <<"\"">> \o x.s \o <<"\"", ":", " ">> \o JsonDumps(x.e[1])

\* x == y in Python: numbers by value (True == 1), str by characters, lists
\* and tuples element-wise, dicts by their key/value pairs whatever the
\* insertion order; values of different kinds are unequal
RECURSIVE PyEq(_, _)
PyEq(x, y) ==
  IF IsNumber(x) /\ IsNumber(y) THEN x.n = y.n
  ELSE IF x.t # y.t THEN FALSE
  ELSE CASE x.t = "none" -> TRUE
         [] x.t = "str" -> x.s = y.s
         [] x.t \in {"list", "tuple"} ->
              /\ Len(x.e) = Len(y.e)
              /\ \A i \in 1..Len(x.e) : PyEq(x.e[i], y.e[i])
         [] x.t = "dict" ->
              /\ Len(x.e) = Len(y.e)
              /\ \A i \in 1..Len(x.e) :
                   \E j \in 1..Len(y.e) :
                     x.e[i].s = y.e[j].s /\ PyEq(x.e[i].e[1], y.e[j].e[1])
         [] x.t = "kv" -> x.s = y.s /\ PyEq(x.e[1], y.e[1])

\* ------------------------------------------------------------------------
\* normalize_value
\* ------------------------------------------------------------------------

\* the key of the sort in normalize_value
SortKey(x) == IF x.t \in {"dict", "list"} THEN JsonDumps(x) ELSE PyToStr(x)

\* sorted(items, key=SortKey): a stable sort, an item goes after the items
\* whose key is not greater than its own
RECURSIVE InsertByKey(_, _)
InsertByKey(sorted, x) ==
  IF sorted = <<>> THEN <<x>>
  ELSE IF StrLess(SortKey(x), SortKey(sorted[1])) THEN <<x>> \o sorted
  ELSE <<sorted[1]>> \o InsertByKey(Tail(sorted), x)

RECURSIVE SortedByKey(_)
SortedByKey(items) ==
  IF items = <<>> THEN <<>>
  ELSE InsertByKey(SortedByKey(SubSeq(items, 1, Len(items) - 1)),
                   items[Len(items)])

\* the items of a sequence that are not None
RECURSIVE DropNone(_)
DropNone(items) ==
  IF items = <<>> THEN <<>>
  ELSE IF items[1] = PyNone THEN DropNone(Tail(items))
  ELSE <<items[1]>> \o DropNone(Tail(items))

RECURSIVE normalize_value(_)
normalize_value(val) ==
  CASE val.t = "none" -> PyNone
    [] val.t = "str" ->
         (LET cleaned == Strip(val.s)
          IN IF cleaned # <<>> THEN PyStr(cleaned) ELSE PyNone)
    [] val.t = "bool" -> val
    [] val.t = "int" -> val
    [] val.t = "list" ->
         PyTuple(SortedByKey(
           DropNone([i \in 1..Len(val.e) |-> normalize_value(val.e[i])])))
    [] val.t = "dict" ->
         PyDict(DropNone(
           [i \in 1..Len(val.e) |->
              LET nv == normalize_value(val.e[i].e[1])
              IN IF nv = PyNone THEN PyNone ELSE KV(val.e[i].s, nv)]))
    [] OTHER -> PyStr(Strip(PyToStr(val)))

\* ------------------------------------------------------------------------
\* Python operations on values
\* ------------------------------------------------------------------------

\* bool(x): None, "", 0, False and the empty containers are false
Truthy(x) ==
  CASE x.t = "none" -> FALSE
    [] x.t = "str" -> x.s # <<>>
    [] x.t \in {"bool", "int"} -> x.n # 0
    [] OTHER -> x.e # <<>>

\* x or y
PyOr(x, y) == IF Truthy(x) THEN x ELSE y

\* k in d, for a dict d
DictHas(d, k) == \E i \in 1..Len(d.e) : d.e[i].s = k

\* d.get(k, default)
DictGetOr(d, k, default) ==
  IF DictHas(d, k)
  THEN d.e[CHOOSE i \in 1..Len(d.e) : d.e[i].s = k].e[1]
  ELSE default

\* d.get(k)
DictGet(d, k) == DictGetOr(d, k, PyNone)

DictKeys(d) == {d.e[i].s : i \in 1..Len(d.e)}

\* the entries of a whose key is not a key of b
RECURSIVE EntriesNotIn(_, _)
EntriesNotIn(entries, b) ==
  IF entries = <<>> THEN <<>>
  ELSE IF DictHas(b, entries[1].s) THEN EntriesNotIn(Tail(entries), b)
  ELSE <<entries[1]>> \o EntriesNotIn(Tail(entries), b)

\* {**a, **b}: the keys of a in their order, with the value of b where b has
\* the key, then the other keys of b
DictMerge(a, b) ==
  PyDict([i \in 1..Len(a.e) |->
            KV(a.e[i].s, DictGetOr(b, a.e[i].s, a.e[i].e[1]))]
         \o EntriesNotIn(b.e, a))

\* needle in hay, for two str: needle is a substring of hay
IsSubstring(needle, hay) ==
  \E i \in 0..(Len(hay) - Len(needle)) :
    SubSeq(hay, i + 1, i + Len(needle)) = needle

\* the keys the program reads
KeyError == <<"e", "r", "r", "o", "r">>

KeyName == <<"n", "a", "m", "e">>

KeyId == <<"i", "d">>

KeyUnderId == <<"_", "i", "d">>

KeyOid == <<"$", "o", "i", "d">>

KeyConfig == <<"c", "o", "n", "f", "i", "g">>

KeyInfo == <<"i", "n", "f", "o">>

KeyTags == <<"t", "a", "g", "s">>

KeyServer == <<"s", "e", "r", "v", "e", "r">>

KeyServerId == <<"s", "e", "r", "v", "e", "r", "_", "i", "d">>

KeyRepo == <<"r", "e", "p", "o">>

KeyLinkedRepo == <<"l", "i", "n", "k", "e", "d", "_", "r", "e", "p", "o">>

KeyImage == <<"i", "m", "a", "g", "e">>

\* ------------------------------------------------------------------------
\* api_read
\* ------------------------------------------------------------------------

\* what a piece of code ends with: a returned value, or an exception
Returns(v) == [exc |-> "none", ret |-> v]

Raises(cls) == [exc |-> cls, ret |-> PyNone]

\* "error" in data: a key of a dict, an element of a list, a substring of a
\* str; a TypeError for None and the numbers
ErrorIn(data) ==
  CASE data.t = "dict" -> Returns(PyBool(DictHas(data, KeyError)))
    [] data.t \in {"list", "tuple"} ->
         Returns(PyBool(\E i \in 1..Len(data.e) : PyEq(data.e[i], PyStr(KeyError))))
    [] data.t = "str" -> Returns(PyBool(IsSubstring(KeyError, data.s)))
    [] OTHER -> Raises("TypeError")

\* the try block of api_read: requests.post, resp.json() and the shapes of
\* the response. transport is "ok" when the request gave a JSON document,
\* data, and otherwise how it failed
ApiReadTry(transport, data) ==
  CASE transport = "timeout" -> Raises("Timeout")
    [] transport = "connection" -> Raises("ConnectionError")
    [] transport = "malformed" -> Raises("JSONDecodeError")
    [] OTHER ->
         LET has == ErrorIn(data)
         IN IF has.exc # "none" THEN has
            ELSE IF Truthy(has.ret)
            THEN IF IsDict(data) /\ Cardinality(DictKeys(data)) > 1
                 THEN Returns(PyList(<<data>>))
                 \* data['error'] of the log line
                 ELSE IF IsDict(data) THEN Returns(PyList(<<>>))
                 ELSE Raises("TypeError")
            ELSE IF IsList(data) THEN Returns(data)
            ELSE IF Truthy(data) THEN Returns(PyList(<<data>>))
            ELSE Returns(PyList(<<>>))

\* the classes an except clause of api_read catches
CaughtBy(handler) ==
  CASE handler = "Timeout" -> {"Timeout"}
    [] handler = "RequestException" ->
         {"Timeout", "ConnectionError", "JSONDecodeError", "RequestException"}
    [] handler = "Exception" ->
         {"Timeout", "ConnectionError", "JSONDecodeError", "RequestException",
          "TypeError", "ValueError", "Exception"}

\* the except clauses of api_read
ApiReadHandlers == {"Timeout", "RequestException", "Exception"}

api_read(transport, data) ==
  LET r == ApiReadTry(transport, data)
  IN IF r.exc = "none" THEN r
     ELSE IF \E h \in ApiReadHandlers : r.exc \in CaughtBy(h)
     THEN Returns(PyList(<<>>))
     ELSE r

\* extract_id
extract_id(value) ==
  IF IsDict(value) /\ DictHas(value, KeyOid) THEN DictGet(value, KeyOid)
  ELSE value

\* ------------------------------------------------------------------------
\* fetch_resource_details and get_komodo_resources_parallel
\* ------------------------------------------------------------------------

\* ThreadPoolExecutor(max_workers=5)
MaxWorkers == 5

\* the environment tag, os.environ['ENVIRONMENT']: a sample value
MATCH_TAG == <<"p", "r", "o", "d">>

\* one request to the API, as the program sees it: the transport and the
\* JSON document of api_read, or fault, an exception raised during the call
\* that the except clauses of api_read do not absorb
OkCall(data) == [fault |-> FALSE, transport |-> "ok", data |-> data]

FailedCall(how) == [fault |-> FALSE, transport |-> how, data |-> PyNone]

FaultCall == [fault |-> TRUE, transport |-> "ok", data |-> PyNone]

Call(c) == IF c.fault THEN Raises("Exception") ELSE api_read(c.transport, c.data)

\* isinstance(detail, dict) and detail.get("name")
ValidDetail(detail) == IsDict(detail) /\ Truthy(DictGet(detail, KeyName))

\* if isinstance(detail, list) and detail: detail = detail[0]
FirstOrSelf(detail) ==
  IF IsList(detail) /\ Truthy(detail) THEN detail.e[1] ELSE detail

\* extract_id(list_item.get("id") or list_item.get("_id"))
ObjId(list_item) ==
  extract_id(PyOr(DictGet(list_item, KeyId), DictGet(list_item, KeyUnderId)))

\* {"name": name}
NameOnly(name) == PyDict(<<KV(KeyName, PyStr(name))>>)

FetchedResult(name, detail, error, calls) ==
  [name |-> name, detail |-> detail, error |-> error, calls |-> calls]

\* except Exception as e: return name, {"name": name}, str(e)
ExceptionResult(name, list_item, calls) ==
  FetchedResult(name, NameOnly(name), "exception", calls)

\* the return statements of fetch_resource_details
DetailOrFallback(name, list_item, detail, calls) ==
  IF ValidDetail(detail)
  THEN FetchedResult(name, detail, "none", calls)
  ELSE FetchedResult(name, PyOr(list_item, NameOnly(name)),
                     "Could not fetch full details", calls)

\* fetch_resource_details: byName and byId are what the API answers to the
\* request by name and to the request by id; calls lists the requests made
fetch_resource_details(name, list_item, byName, byId) ==
  LET first == Call(byName)
  IN IF first.exc # "none"
     THEN ExceptionResult(name, list_item, <<"name">>)
     ELSE LET detail == FirstOrSelf(first.ret)
              obj_id == ObjId(list_item)
          IN IF ~ValidDetail(detail) /\ Truthy(obj_id)
             THEN LET second == Call(byId)
                  IN IF second.exc # "none"
                     THEN ExceptionResult(name, list_item, <<"name", "id">>)
                     ELSE DetailOrFallback(name, list_item,
                                           FirstOrSelf(second.ret),
                                           <<"name", "id">>)
             ELSE DetailOrFallback(name, list_item, detail, <<"name">>)

\* get_tag_id_by_name(name), tagsCall being the answer to ListTags
get_tag_id_by_name(tagsCall, name) ==
  LET tags == Call(tagsCall).ret.e
      hits == {i \in 1..Len(tags) : PyEq(DictGet(tags[i], KeyName), PyStr(name))}
  IN IF hits = {} THEN PyNone
     ELSE LET i == CHOOSE h \in hits : \A k \in hits : h <= k
          IN extract_id(PyOr(DictGet(tags[i], KeyId), DictGet(tags[i], KeyUnderId)))

\* query_tags = [tag_id] if tag_id else [MATCH_TAG]
QueryTags(tagsCall) ==
  LET tag_id == get_tag_id_by_name(tagsCall, MATCH_TAG)
  IN IF Truthy(tag_id) THEN PyList(<<tag_id>>) ELSE PyList(<<PyStr(MATCH_TAG)>>)

\* {r.get("name") for r in resources if r.get("name")}
NamesIn(resources) ==
  {DictGet(resources[i], KeyName).s :
     i \in {j \in 1..Len(resources) : Truthy(DictGet(resources[j], KeyName))}}

\* the servers of all_servers appended to the tag-filtered list
RECURSIVE ServersToAppend(_, _, _)
ServersToAppend(all_servers, desired_names, tagged_names) ==
  IF all_servers = <<>> THEN <<>>
  ELSE LET name == DictGet(all_servers[1], KeyName)
           rest == ServersToAppend(Tail(all_servers), desired_names, tagged_names)
       IN IF Truthy(name) /\ name.s \in desired_names /\ name.s \notin tagged_names
          THEN <<all_servers[1]>> \o rest
          ELSE rest

\* desired_names=None, which the program only tests for truth: the empty set
NoDesiredNames == {}

\* a listing without the special case of the servers
ListedResourcesTaggedOnly(resource_type, desired_names, taggedCall, allCall) ==
  Call(taggedCall).ret.e

\* the list of resources that get_komodo_resources_parallel fetches: the
\* tag-filtered list and, for servers, the desired servers it does not hold
ListedResources(resource_type, desired_names, taggedCall, allCall) ==
  LET resources == Call(taggedCall).ret.e
  IN IF resource_type = "server" /\ desired_names # {}
     THEN resources \o ServersToAppend(Call(allCall).ret.e, desired_names,
                                       NamesIn(resources))
     ELSE resources

\* resources_by_name = {r.get("name"): r for r in resources if r.get("name")}
ResourcesByName(resources) ==
  [name \in NamesIn(resources) |->
     resources[CHOOSE i \in 1..Len(resources) :
                 /\ DictGet(resources[i], KeyName) = PyStr(name)
                 /\ \A j \in (i + 1)..Len(resources) :
                      DictGet(resources[j], KeyName) # PyStr(name)]]

\* a loop body that deposits nothing for a future whose result() raises
DepositDoneOnly(detailed, name, task, by_name) ==
  IF task.st = "done"
  THEN (task.res.name :> task.res.detail) @@ detailed
  ELSE detailed

\* the body of the as_completed loop: the entry deposited for a finished
\* future, task.st being "done" (future.result() returns) or "failed"
\* (future.result() raises)
Deposit(detailed, name, task, by_name) ==
  IF task.st = "done"
  THEN (task.res.name :> task.res.detail) @@ detailed
  \* resources_by_name.get(name, {"name": name})
  ELSE (name :> (IF name \in DOMAIN by_name THEN by_name[name]
                 ELSE NameOnly(name))) @@ detailed

\* desired_names if resource_type == "server" else None
DesiredNamesArg(resource_type, desired_names) ==
  IF resource_type = "server" THEN desired_names ELSE NoDesiredNames

\* ------------------------------------------------------------------------
\* compare_config
\* ------------------------------------------------------------------------

\* c.lower() of a character
LowerChar(c) ==
  IF Ord(c) >= 65 /\ Ord(c) <= 90 THEN Ascii[Ord(c) - 31 + 32] ELSE c

HexChars ==
  {"0", "1", "2", "3", "4", "5", "6", "7", "8", "9", "a", "b", "c", "d", "e", "f"}

\* is_object_id
is_object_id(value) ==
  /\ IsStr(value)
  /\ LET v == Strip(value.s)
     IN Len(v) = 24 /\ \A i \in 1..Len(v) : LowerChar(v[i]) \in HexChars

\* mapping.get(key) of an id-to-name mapping, whose keys are str
MapGet(mapping, key) == IF IsStr(key) THEN DictGet(mapping, key.s) ELSE PyNone

\* one entry of differences
Difference(key, desired_norm, current_norm) ==
  [key |-> key, desired |-> desired_norm, current |-> current_norm]

\* the comparison of the tags
TagDifferences(desired, current, current_info, TAG_ID_TO_NAME) ==
  LET desired_tags == normalize_value(DictGetOr(desired, KeyTags, PyList(<<>>)))
      current_tags_raw ==
        PyOr(PyOr(DictGet(current, KeyTags), DictGet(current_info, KeyTags)),
             PyList(<<>>))
      IsId(tag) == is_object_id(PyStr(PyToStr(tag)))
      Mapped(tag) == Truthy(MapGet(TAG_ID_TO_NAME, tag))
      NotId(tag) == ~IsId(tag)
      mapped == LET known == SelectSeq(current_tags_raw.e, Mapped)
                IN [i \in 1..Len(known) |-> MapGet(TAG_ID_TO_NAME, known[i])]
      current_tags_norm ==
        IF Truthy(current_tags_raw)
           /\ \A i \in 1..Len(current_tags_raw.e) : IsId(current_tags_raw.e[i])
        THEN IF mapped # <<>> THEN normalize_value(PyList(mapped)) ELSE PyNone
        ELSE normalize_value(PyList(SelectSeq(current_tags_raw.e, NotId)))
  IN IF desired_tags # PyNone /\ current_tags_norm # PyNone
        /\ ~PyEq(desired_tags, current_tags_norm)
     THEN <<Difference(KeyTags, desired_tags, current_tags_norm)>>
     ELSE <<>>

\* the comparison of the server assignment of a stack or a repo
ServerDifferences(desired_config, current_info, resource_type, SERVER_ID_TO_NAME) ==
  IF resource_type \in {"stack", "repo"}
  THEN LET desired_server == DictGet(desired_config, KeyServer)
           current_server_id ==
             extract_id(PyOr(DictGet(current_info, KeyServerId),
                             DictGet(current_info, KeyServer)))
           current_server ==
             IF Truthy(current_server_id)
             THEN MapGet(SERVER_ID_TO_NAME, current_server_id)
             ELSE PyNone
       IN IF Truthy(desired_server) /\ ~PyEq(desired_server, current_server)
          THEN <<Difference(KeyServer, desired_server, current_server)>>
          ELSE <<>>
  ELSE <<>>

\* alias_map.get(desired_key, [desired_key])
AliasKeys(desired_key) ==
  CASE desired_key = KeyLinkedRepo -> <<KeyLinkedRepo, KeyRepo>>
    [] desired_key = KeyRepo -> <<KeyRepo, KeyLinkedRepo>>
    [] OTHER -> <<desired_key>>

has_current_key(desired_key, current_info) ==
  \E i \in 1..Len(AliasKeys(desired_key)) :
    DictHas(current_info, AliasKeys(desired_key)[i])

get_current_value(desired_key, current_info, REPO_ID_TO_NAME) ==
  LET keys == AliasKeys(desired_key)
      found == {i \in 1..Len(keys) : DictHas(current_info, keys[i])}
  IN IF found = {} THEN PyNone
     ELSE LET key == keys[CHOOSE i \in found : \A j \in found : i <= j]
              value == DictGet(current_info, key)
          IN IF key = KeyLinkedRepo /\ IsStr(value)
                /\ DictHas(REPO_ID_TO_NAME, value.s)
             THEN DictGet(REPO_ID_TO_NAME, value.s)
             ELSE value

\* the names bound at module level when compare_config runs: the imports,
\* the settings and the functions. main keeps SERVER_ID_TO_NAME,
\* REPO_ID_TO_NAME and TAG_ID_TO_NAME in local variables
ModuleGlobals ==
  { "tomllib", "json", "requests", "os", "sys", "ThreadPoolExecutor",
    "as_completed", "API_URL", "API_KEY", "API_SECRET", "MATCH_TAG", "headers",
    "api_read", "extract_id", "fetch_resource_details",
    "get_komodo_resources_parallel", "get_all_servers", "get_all_repos",
    "get_all_tags", "get_desired_resources", "normalize_value",
    "get_current_value", "has_current_key", "is_object_id", "compare_config",
    "detect_changes", "main" }

\* the parameters and the local variables of compare_config
CompareConfigLocals ==
  { "desired", "current", "resource_type", "SERVER_ID_TO_NAME",
    "TAG_ID_TO_NAME", "desired_config", "current_info", "name", "differences",
    "desired_tags", "current_tags_raw", "mapped", "current_tags_norm",
    "desired_server", "current_server_id", "current_server", "ignored_keys",
    "key", "desired_val", "desired_norm", "current_val", "current_norm" }

\* whether a name read in compare_config is bound
BoundInCompareConfig(name) == name \in CompareConfigLocals \cup ModuleGlobals

\* the loop over desired_config.items(): the differences found, or the
\* exception that ends the loop. repos is the value of REPO_ID_TO_NAME where
\* the name is bound
RECURSIVE ConfigDifferences(_, _, _)
ConfigDifferences(entries, current_info, repos) ==
  IF entries = <<>> THEN Returns(<<>>)
  ELSE LET key == entries[1].s
           desired_norm == normalize_value(entries[1].e[1])
           rest == ConfigDifferences(Tail(entries), current_info, repos)
       IN IF key = KeyServer THEN rest
          ELSE IF ~has_current_key(key, current_info) THEN rest
          ELSE IF desired_norm = PyNone THEN rest
          ELSE IF ~BoundInCompareConfig("REPO_ID_TO_NAME")
          THEN Raises("NameError")
          ELSE LET current_val == get_current_value(key, current_info, repos)
                   current_norm == normalize_value(current_val)
               IN IF current_val = PyNone THEN rest
                  ELSE IF rest.exc # "none" THEN rest
                  ELSE IF ~PyEq(desired_norm, current_norm)
                  THEN Returns(<<Difference(key, desired_norm, current_norm)>>
                               \o rest.ret)
                  ELSE rest

\* what compare_config ends with: exc, the value returned and differences
Compared(exc, ret, differences) ==
  [exc |-> exc, ret |-> ret, differences |-> differences]

\* current_info = {**(current.get("info") or {}), **(current.get("config") or {})}
CurrentInfo(current) ==
  DictMerge(PyOr(DictGet(current, KeyInfo), PyDict(<<>>)),
            PyOr(DictGet(current, KeyConfig), PyDict(<<>>)))

compare_config(desired, current, resource_type, SERVER_ID_TO_NAME, TAG_ID_TO_NAME) ==
  LET desired_config == DictGetOr(desired, KeyConfig, PyDict(<<>>))
      current_info == CurrentInfo(current)
  IN IF ~Truthy(current_info) THEN Compared("none", FALSE, <<>>)
     ELSE LET tags == TagDifferences(desired, current, current_info, TAG_ID_TO_NAME)
              server == ServerDifferences(desired_config, current_info,
                                          resource_type, SERVER_ID_TO_NAME)
              config == ConfigDifferences(desired_config.e, current_info, PyDict(<<>>))
          IN IF config.exc # "none" THEN Compared(config.exc, FALSE, <<>>)
             ELSE LET differences == tags \o server \o config.ret
                  IN Compared("none", Len(differences) > 0, differences)

\* ------------------------------------------------------------------------
\* detect_changes
\* ------------------------------------------------------------------------

\* every desired name counted as added
AddedNamesAll(desired_names, current_names) == desired_names

\* added = desired_names - current_names
AddedNames(desired_names, current_names) == desired_names \ current_names

\* removed = current_names - desired_names
RemovedNames(desired_names, current_names) == current_names \ desired_names

\* the names compare_config is called for
ComparedNames(desired_names, current_names) == desired_names \cap current_names

\* ------------------------------------------------------------------------
\* State
\* ------------------------------------------------------------------------

VARIABLES
  nvVal,      \* normalize_value: the value given
  nvPerm,     \* normalize_value: a reordering of nvVal, when it is a list
  nvOut,      \* normalize_value(nvVal)
  nvPermOut,  \* normalize_value(nvPerm)
  nvTwice,    \* normalize_value(normalize_value(nvVal))
  nvPc,       \* "start", "once", "twice"
  apTransport,  \* api_read: "ok", or how the request failed
  apData,       \* api_read: the JSON document of the response
  apResult,     \* api_read: what the call ended with
  apPc,         \* "start", "done"
  fKind,        \* get_komodo_resources_parallel: resource_type
  fDesired,     \* the desired names of detect_changes
  fTagsCall,    \* what the API answers to ListTags
  fTaggedCall,  \* what the API answers to the tag-filtered list request
  fAllCall,     \* what the API answers to the unfiltered ListServers
  fQueryTags,   \* query_tags
  fByName,      \* resources_by_name
  fTask,        \* the futures: name -> [st, res]
  fDetailed,    \* detailed
  fOrder,       \* the names in the order as_completed gave them
  fCompleted,   \* completed
  fPc,          \* "start", "submitted", "returned"
  dKind,        \* detect_changes: resource_type
  dDesired,     \* desired: name -> the record of the declarative file
  dServerMap,   \* SERVER_ID_TO_NAME
  dTagMap,      \* TAG_ID_TO_NAME
  dByName,      \* resources_by_name of the fetch
  dFetched,     \* current: name -> [detail, error], error the soft error
  dCompared,    \* name -> what compare_config ended with
  dResult,      \* the sets detect_changes returns
  dPc           \* "start", "fetching", "comparing", "done", "raised"

nvVars == <<nvVal, nvPerm, nvOut, nvPermOut, nvTwice, nvPc>>

apVars == <<apTransport, apData, apResult, apPc>>

fVars ==
  <<fKind, fDesired, fTagsCall, fTaggedCall, fAllCall, fQueryTags, fByName,
    fTask, fDetailed, fOrder, fCompleted, fPc>>

dVars ==
  <<dKind, dDesired, dServerMap, dTagMap, dByName, dFetched, dCompared,
    dResult, dPc>>

vars == <<nvVars, apVars, fVars, dVars>>

\* ------------------------------------------------------------------------
\* The values given to normalize_value
\* ------------------------------------------------------------------------

Scalars ==
  { PyNone, PyStr(<<>>), PyStr(<<" ">>), PyStr(<<"a">>), PyStr(<<" ", "b">>),
    PyStr(<<"1">>), PyStr(<<"T", "r", "u", "e">>),
    PyBool(TRUE), PyBool(FALSE), PyInt(1), PyInt(10) }

SeqsUpTo(S, k) == UNION {[1..m -> S] : m \in 0..k}

FlatLists == {PyList(sq) : sq \in SeqsUpTo(Scalars, MaxListLen)}

FlatDicts ==
  {PyDict(<<KV(<<"k">>, v)>>) : v \in Scalars}
    \cup {PyDict(<<KV(<<"k">>, v), KV(<<"j">>, PyInt(1))>>) : v \in Scalars}

Nested ==
  { PyList(<<PyInt(1)>>), PyList(<<PyStr(<<"b">>), PyStr(<<"a">>)>>),
    PyDict(<<KV(<<"k">>, PyInt(1))>>),
    PyDict(<<KV(<<"k">>, PyList(<<PyInt(10), PyInt(1)>>))>>),
    PyStr(<<"[", "1", "]">>),
    PyStr(<<"{", "\"", "k", "\"", ":", " ", "1", "}">>),
    PyStr(<<"a">>), PyNone }

NestedLists == {PyList(sq) : sq \in SeqsUpTo(Nested, MaxListLen)}

NormalizeInputs == Scalars \cup FlatLists \cup FlatDicts \cup NestedLists

\* the reorderings of a sequence
Reorderings(sq) ==
  { [i \in 1..Len(sq) |-> sq[p[i]]] :
      p \in {f \in [1..Len(sq) -> 1..Len(sq)] :
               \A i, j \in 1..Len(sq) : i # j => f[i] # f[j]} }

NvInit ==
  /\ nvVal \in NormalizeInputs
  /\ nvPerm \in (IF IsList(nvVal)
                 THEN {PyList(sq) : sq \in Reorderings(nvVal.e)}
                 ELSE {nvVal})
  /\ nvOut = PyNone
  /\ nvPermOut = PyNone
  /\ nvTwice = PyNone
  /\ nvPc = "start"

\* normalize_value is not running
NvIdle ==
  /\ nvVal = PyNone
  /\ nvPerm = PyNone
  /\ nvOut = PyNone
  /\ nvPermOut = PyNone
  /\ nvTwice = PyNone
  /\ nvPc = "idle"

\* ------------------------------------------------------------------------
\* The responses given to api_read
\* ------------------------------------------------------------------------

StrError == PyStr(KeyError)

StrBoom == PyStr(<<"b", "o", "o", "m">>)

\* mappings: empty, an error alone, an error beside a payload, a payload
ResponseMappings ==
  { PyDict(<<>>),
    PyDict(<<KV(KeyError, StrBoom)>>),
    PyDict(<<KV(KeyError, StrBoom), KV(KeyName, PyStr(<<"a">>))>>),
    PyDict(<<KV(KeyName, PyStr(<<"a">>)), KV(KeyError, PyNone)>>),
    PyDict(<<KV(KeyName, PyStr(<<"a">>))>>),
    PyDict(<<KV(KeyName, PyStr(<<"b">>)), KV(KeyId, PyStr(<<"1">>))>>) }

ResponseScalars ==
  { PyNone, PyStr(<<>>), PyStr(<<"o", "k">>), StrError,
    PyStr(<<"n", "o", " ">> \o KeyError), PyInt(0), PyInt(10), PyBool(TRUE) }

ResponseLists ==
  {PyList(sq) : sq \in SeqsUpTo(ResponseMappings \cup {StrError}, MaxRespLen)}

ResponseDocuments == ResponseMappings \cup ResponseScalars \cup ResponseLists

TransportFailures == {"timeout", "connection", "malformed"}

ApInit ==
  /\ apTransport \in {"ok"} \cup TransportFailures
  /\ apData \in (IF apTransport = "ok" THEN ResponseDocuments ELSE {PyNone})
  /\ apResult = Returns(PyNone)
  /\ apPc = "start"

\* api_read is not running
ApIdle ==
  /\ apTransport = "ok"
  /\ apData = PyNone
  /\ apResult = Returns(PyNone)
  /\ apPc = "idle"

\* ------------------------------------------------------------------------
\* The resources of the API and the answers it gives
\* ------------------------------------------------------------------------

Kinds == {"stack", "repo", "server"}

NameSeq == << <<"a">>, <<"b">>, <<"c">>, <<"d">> >>

Names == {NameSeq[i] : i \in 1..MaxNames}

\* the names of a set, in the order of NameSeq
SeqOfNames(T) == SelectSeq([i \in 1..MaxNames |-> NameSeq[i]], LAMBDA n : n \in T)

\* a 24-character hexadecimal identifier
ObjectIdOf(c) == [i \in 1..24 |-> c]

TagId == ObjectIdOf("a")

ServerId1 == <<"s", "1">>

ServerId2 == <<"s", "2">>

Node1 == <<"n", "o", "d", "e", "-", "1">>

Node2 == <<"n", "o", "d", "e", "-", "2">>

V1 == <<"v", "1">>

V2 == <<"v", "2">>

\* the summary of a resource in a list answer. The shapes: a plain id, an id
\* in a {"$oid": ...} envelope, no id, and a summary that carries tags and
\* an info mapping
SummaryShapes == {"id", "oid", "bare", "info"}

Summary(name, shape) ==
  CASE shape = "id" ->
         PyDict(<<KV(KeyName, PyStr(name)), KV(KeyId, PyStr(<<"i">> \o name))>>)
    [] shape = "oid" ->
         PyDict(<<KV(KeyName, PyStr(name)),
                  KV(KeyUnderId, PyDict(<<KV(KeyOid, PyStr(<<"i">> \o name))>>))>>)
    [] shape = "bare" -> PyDict(<<KV(KeyName, PyStr(name))>>)
    [] shape = "info" ->
         PyDict(<<KV(KeyName, PyStr(name)), KV(KeyId, PyStr(<<"i">> \o name)),
                  KV(KeyTags, PyList(<<PyStr(TagId)>>)),
                  KV(KeyInfo, PyDict(<<KV(KeyServerId, PyStr(ServerId2))>>))>>)

\* the shape of the summary of each resource in the runs of the fetcher
ShapeOf(name) ==
  CASE name = NameSeq[1] -> "id"
    [] name = NameSeq[2] -> "bare"
    [] name = NameSeq[3] -> "oid"
    [] OTHER -> "info"

SummaryList(T) ==
  LET sq == SeqOfNames(T)
  IN PyList([i \in 1..Len(sq) |-> Summary(sq[i], ShapeOf(sq[i]))])

\* the full detail of a resource
Detail(name, config) ==
  PyDict(<<KV(KeyName, PyStr(name)), KV(KeyConfig, config)>>)

ConfigV1 == PyDict(<<KV(KeyImage, PyStr(V1))>>)

\* a detail answer with no name
NamelessDetail == PyDict(<<KV(KeyConfig, ConfigV1)>>)

\* the answers to ListTags
TagsCalls ==
  { FailedCall("timeout"),
    OkCall(PyList(<<PyDict(<<KV(KeyName, PyStr(MATCH_TAG)),
                             KV(KeyUnderId, PyDict(<<KV(KeyOid, PyStr(TagId))>>))>>)>>)) }

\* the answers to the tag-filtered list request
TaggedCalls ==
  {FailedCall("connection")} \cup {OkCall(SummaryList(T)) : T \in SUBSET Names}

\* the answers to the unfiltered ListServers
AllServersCalls ==
  {OkCall(SummaryList(A)) : A \in {{}, {NameSeq[2]}, Names}}

\* the desired names
DesiredNameSets == {{}, {NameSeq[1]}, Names}

\* the answers to a detail request for a resource
DetailCalls(name) ==
  { FaultCall, FailedCall("timeout"), OkCall(Detail(name, ConfigV1)),
    OkCall(NamelessDetail) }

NoResult == FetchedResult(<<>>, PyNone, "none", <<>>)

FInit ==
  /\ fKind \in Kinds
  /\ fDesired \in DesiredNameSets
  /\ fTagsCall \in TagsCalls
  /\ fTaggedCall \in TaggedCalls
  /\ fAllCall \in AllServersCalls
  /\ fQueryTags = PyNone
  /\ fByName = <<>>
  /\ fTask = <<>>
  /\ fDetailed = <<>>
  /\ fOrder = <<>>
  /\ fCompleted = 0
  /\ fPc = "start"

\* get_komodo_resources_parallel is not running
FIdle ==
  /\ fKind = "stack"
  /\ fDesired = {}
  /\ fTagsCall = FaultCall
  /\ fTaggedCall = FaultCall
  /\ fAllCall = FaultCall
  /\ fQueryTags = PyNone
  /\ fByName = <<>>
  /\ fTask = <<>>
  /\ fDetailed = <<>>
  /\ fOrder = <<>>
  /\ fCompleted = 0
  /\ fPc = "idle"

\* ------------------------------------------------------------------------
\* The desired records and the details of the runs of detect_changes
\* ------------------------------------------------------------------------

\* a record of the declarative file; get_desired_resources keeps the records
\* that have a name and MATCH_TAG among their tags
DesiredRecord(name, config) ==
  PyDict(<<KV(KeyName, PyStr(name)),
           KV(KeyTags, PyList(<<PyStr(MATCH_TAG)>>)),
           KV(KeyConfig, config)>>)

DesiredConfigs ==
  { PyDict(<<>>),
    PyDict(<<KV(KeyServer, PyStr(Node1))>>),
    PyDict(<<KV(KeyServer, PyStr(Node1)), KV(KeyImage, PyStr(V2))>>),
    PyDict(<<KV(KeyImage, PyStr(V1))>>) }

\* the desired resources: a record for each name of a set of names; the
\* config of the first name ranges over DesiredConfigs
DesiredSets ==
  {c \in UNION {[D -> DesiredConfigs] : D \in SUBSET Names} :
     \A n \in DOMAIN c :
       n # NameSeq[1] => c[n] = PyDict(<<KV(KeyServer, PyStr(Node1)), KV(KeyImage, PyStr(V2))>>)}

\* details: a server given by id and an image; the tag and the image of the
\* desired record; tag ids and a server id in an envelope
DetailServerImage(name) ==
  Detail(name, PyDict(<<KV(KeyServerId, PyStr(ServerId1)), KV(KeyImage, PyStr(V1))>>))

DetailSame(name) ==
  PyDict(<<KV(KeyName, PyStr(name)),
           KV(KeyTags, PyList(<<PyStr(MATCH_TAG)>>)),
           KV(KeyConfig, ConfigV1)>>)

DetailOtherServer(name) ==
  PyDict(<<KV(KeyName, PyStr(name)),
           KV(KeyTags, PyList(<<PyStr(TagId)>>)),
           KV(KeyConfig,
              PyDict(<<KV(KeyServerId, PyDict(<<KV(KeyOid, PyStr(ServerId2))>>))>>))>>)

\* the server of the desired record, under the key and with the value of
\* the declarative file
DetailServerName(name) ==
  PyDict(<<KV(KeyName, PyStr(name)),
           KV(KeyTags, PyList(<<PyStr(MATCH_TAG)>>)),
           KV(KeyConfig, PyDict(<<KV(KeyServer, PyStr(Node1))>>))>>)

\* the answers to the by-name request; those for the first name range over
\* every detail
ByNameCalls(name) ==
  IF name = NameSeq[1]
  THEN { FaultCall, FailedCall("timeout"), OkCall(DetailServerImage(name)),
         OkCall(DetailSame(name)), OkCall(DetailServerName(name)),
         OkCall(PyList(<<DetailOtherServer(name)>>)) }
  ELSE {FailedCall("timeout"), OkCall(DetailServerImage(name))}

ByIdCalls(name) == {FailedCall("timeout"), OkCall(DetailOtherServer(name))}

\* the list answers: each name absent or present, the first name with one of
\* two shapes
ShapedList(shapes) ==
  LET sq == SeqOfNames(DOMAIN shapes)
  IN PyList([i \in 1..Len(sq) |-> Summary(sq[i], shapes[sq[i]])])

ListCalls ==
  {OkCall(ShapedList(shapes)) :
     shapes \in {sh \in UNION {[T -> {"id", "info"}] : T \in SUBSET Names} :
                   \A n \in DOMAIN sh : n # NameSeq[1] => sh[n] = "id"}}

\* the listings of all servers and of all tags went through, or failed and
\* left the maps empty
IdMaps ==
  { [servers |-> PyDict(<<>>), tags |-> PyDict(<<>>)],
    [servers |-> PyDict(<<KV(ServerId1, PyStr(Node1)), KV(ServerId2, PyStr(Node2))>>),
     tags |-> PyDict(<<KV(TagId, PyStr(MATCH_TAG))>>)] }

\* the list of all servers, asked for servers only
AllListCalls ==
  {OkCall(ShapedList([n \in T |-> "id"])) : T \in {{}, Names}}

NoSets == [added |-> {}, removed |-> {}, modified |-> {}, current |-> {}, desired |-> {}]

DInit ==
  /\ dKind \in Kinds
  /\ dDesired \in {[n \in DOMAIN c |-> DesiredRecord(n, c[n])] : c \in DesiredSets}
  /\ \E maps \in IdMaps :
       /\ dServerMap = maps.servers
       /\ dTagMap = maps.tags
  /\ dByName = <<>>
  /\ dFetched = <<>>
  /\ dCompared = <<>>
  /\ dResult = NoSets
  /\ dPc = "start"

\* detect_changes is not running
DIdle ==
  /\ dKind = "stack"
  /\ dDesired = <<>>
  /\ dServerMap = PyDict(<<>>)
  /\ dTagMap = PyDict(<<>>)
  /\ dByName = <<>>
  /\ dFetched = <<>>
  /\ dCompared = <<>>
  /\ dResult = NoSets
  /\ dPc = "idle"

\* ------------------------------------------------------------------------
\* normalize_value, applied once and twice
\* ------------------------------------------------------------------------

\* normalize_value(val), and of the reordered val
NormalizeOnce ==
  /\ nvPc = "start"
  /\ nvOut' = normalize_value(nvVal)
  /\ nvPermOut' = normalize_value(nvPerm)
  /\ nvPc' = "once"
  /\ UNCHANGED <<nvVal, nvPerm, nvTwice, apVars, fVars, dVars>>

\* normalize_value of what normalize_value returned
NormalizeAgain ==
  /\ nvPc = "once"
  /\ nvTwice' = normalize_value(nvOut)
  /\ nvPc' = "twice"
  /\ UNCHANGED <<nvVal, nvPerm, nvOut, nvPermOut, apVars, fVars, dVars>>

NvNext == NormalizeOnce \/ NormalizeAgain

InitNormalize == NvInit /\ ApIdle /\ FIdle /\ DIdle

SpecNormalize == InitNormalize /\ [][NvNext]_vars

\* ------------------------------------------------------------------------
\* One call of api_read
\* ------------------------------------------------------------------------

ApiRead ==
  /\ apPc = "start"
  /\ apResult' = api_read(apTransport, apData)
  /\ apPc' = "done"
  /\ UNCHANGED <<apTransport, apData, nvVars, fVars, dVars>>

ApNext == ApiRead

InitApiRead == NvIdle /\ ApInit /\ FIdle /\ DIdle

SpecApiRead == InitApiRead /\ [][ApNext]_vars

\* ------------------------------------------------------------------------
\* get_komodo_resources_parallel
\* ------------------------------------------------------------------------

\* from the tag lookup to the submission of the fetch tasks; with no name
\* to fetch the function returns {}
ListAndSubmit ==
  /\ fPc = "start"
  /\ LET resources == ListedResources(fKind, DesiredNamesArg(fKind, fDesired),
                                      fTaggedCall, fAllCall)
         by_name == ResourcesByName(resources)
     IN /\ fQueryTags' = QueryTags(fTagsCall)
        /\ fByName' = by_name
        /\ fTask' = [n \in DOMAIN by_name |-> [st |-> "queued", res |-> NoResult]]
        /\ fPc' = IF DOMAIN by_name = {} THEN "returned" ELSE "submitted"
  /\ UNCHANGED <<fKind, fDesired, fTagsCall, fTaggedCall, fAllCall, fDetailed,
                 fOrder, fCompleted, nvVars, apVars, dVars>>

\* a worker of the pool takes the next task of the queue (the tasks were
\* submitted in the order of sorted(names))
TaskStart(n) ==
  /\ fPc = "submitted"
  /\ fTask[n].st = "queued"
  /\ Cardinality({m \in DOMAIN fTask : fTask[m].st = "running"}) < MaxWorkers
  /\ \A m \in DOMAIN fTask : StrLess(m, n) => fTask[m].st # "queued"
  /\ fTask' = [fTask EXCEPT ![n].st = "running"]
  /\ UNCHANGED <<fKind, fDesired, fTagsCall, fTaggedCall, fAllCall, fQueryTags,
                 fByName, fDetailed, fOrder, fCompleted, fPc, nvVars, apVars, dVars>>

\* fetch_resource_details returns
TaskFinish(n) ==
  /\ fPc = "submitted"
  /\ fTask[n].st = "running"
  /\ \E byName \in DetailCalls(n), byId \in DetailCalls(n) :
       fTask' = [fTask EXCEPT ![n] =
                   [st |-> "done",
                    res |-> fetch_resource_details(n, fByName[n], byName, byId)]]
  /\ UNCHANGED <<fKind, fDesired, fTagsCall, fTaggedCall, fAllCall, fQueryTags,
                 fByName, fDetailed, fOrder, fCompleted, fPc, nvVars, apVars, dVars>>

\* an exception leaves fetch_resource_details: future.result() will raise
TaskFail(n) ==
  /\ fPc = "submitted"
  /\ fTask[n].st = "running"
  /\ fTask' = [fTask EXCEPT ![n].st = "failed"]
  /\ UNCHANGED <<fKind, fDesired, fTagsCall, fTaggedCall, fAllCall, fQueryTags,
                 fByName, fDetailed, fOrder, fCompleted, fPc, nvVars, apVars, dVars>>

\* as_completed gives a finished future and the loop body deposits its entry
Collect(n) ==
  /\ fPc = "submitted"
  /\ fTask[n].st \in {"done", "failed"}
  /\ fDetailed' = Deposit(fDetailed, n, fTask[n], fByName)
  /\ fTask' = [fTask EXCEPT ![n].st = "collected"]
  /\ fOrder' = Append(fOrder, n)
  /\ fCompleted' = fCompleted + 1
  /\ UNCHANGED <<fKind, fDesired, fTagsCall, fTaggedCall, fAllCall, fQueryTags,
                 fByName, fPc, nvVars, apVars, dVars>>

\* every future was given by as_completed: return detailed
ReturnDetailed ==
  /\ fPc = "submitted"
  /\ \A n \in DOMAIN fTask : fTask[n].st = "collected"
  /\ fPc' = "returned"
  /\ UNCHANGED <<fKind, fDesired, fTagsCall, fTaggedCall, fAllCall, fQueryTags,
                 fByName, fTask, fDetailed, fOrder, fCompleted, nvVars, apVars, dVars>>

FNext ==
  \/ ListAndSubmit
  \/ \E n \in DOMAIN fTask : TaskStart(n)
  \/ \E n \in DOMAIN fTask : TaskFinish(n)
  \/ \E n \in DOMAIN fTask : TaskFail(n)
  \/ \E n \in DOMAIN fTask : Collect(n)
  \/ ReturnDetailed

InitFetch == NvIdle /\ ApIdle /\ FInit /\ DIdle

SpecFetch == InitFetch /\ [][FNext]_vars

\* ------------------------------------------------------------------------
\* detect_changes
\* ------------------------------------------------------------------------

\* get_komodo_resources_parallel, to the submission of the fetch tasks
DcList ==
  /\ dPc = "start"
  /\ \E taggedCall \in ListCalls, allCall \in AllListCalls :
       LET resources ==
             ListedResources(dKind, DesiredNamesArg(dKind, DOMAIN dDesired),
                             taggedCall, allCall)
       IN /\ dByName' = ResourcesByName(resources)
          /\ dPc' = IF NamesIn(resources) = {} THEN "comparing" ELSE "fetching"
  /\ UNCHANGED <<dKind, dDesired, dServerMap, dTagMap, dFetched, dCompared,
                 dResult, nvVars, apVars, fVars>>

\* one fetch task ends and its entry is deposited: fetch_resource_details
\* returned, or (failed) raised
DcFetch(n) ==
  /\ dPc = "fetching"
  /\ n \notin DOMAIN dFetched
  /\ \E byName \in ByNameCalls(n), byId \in ByIdCalls(n), failed \in BOOLEAN :
       LET res == fetch_resource_details(n, dByName[n], byName, byId)
           task == [st |-> IF failed THEN "failed" ELSE "done", res |-> res]
           detailed == Deposit(<<>>, n, task, dByName)
           error == IF failed THEN "failed" ELSE res.error
       IN dFetched' = (n :> [detail |-> detailed[n], error |-> error]) @@ dFetched
  /\ dPc' = IF DOMAIN dFetched' = DOMAIN dByName THEN "comparing" ELSE "fetching"
  /\ UNCHANGED <<dKind, dDesired, dServerMap, dTagMap, dByName, dCompared,
                 dResult, nvVars, apVars, fVars>>

\* one round of the loop over desired_names & current_names; an exception
\* of compare_config ends detect_changes
DcCompare(n) ==
  /\ dPc = "comparing"
  /\ n \in ComparedNames(DOMAIN dDesired, DOMAIN dFetched)
  /\ n \notin DOMAIN dCompared
  /\ LET r == compare_config(dDesired[n], dFetched[n].detail, dKind,
                             dServerMap, dTagMap)
     IN /\ dCompared' = (n :> r) @@ dCompared
        /\ dPc' = IF r.exc # "none" THEN "raised" ELSE "comparing"
  /\ UNCHANGED <<dKind, dDesired, dServerMap, dTagMap, dByName, dFetched,
                 dResult, nvVars, apVars, fVars>>

\* the loop is over: the sets are returned
DcReturn ==
  /\ dPc = "comparing"
  /\ ComparedNames(DOMAIN dDesired, DOMAIN dFetched) \subseteq DOMAIN dCompared
  /\ dResult' = [added |-> AddedNames(DOMAIN dDesired, DOMAIN dFetched),
                 removed |-> RemovedNames(DOMAIN dDesired, DOMAIN dFetched),
                 modified |-> {n \in DOMAIN dCompared : dCompared[n].ret},
                 current |-> DOMAIN dFetched,
                 desired |-> DOMAIN dDesired]
  /\ dPc' = "done"
  /\ UNCHANGED <<dKind, dDesired, dServerMap, dTagMap, dByName, dFetched,
                 dCompared, nvVars, apVars, fVars>>

Next ==
  \/ DcList
  \/ \E n \in DOMAIN dByName : DcFetch(n)
  \/ \E n \in DOMAIN dDesired : DcCompare(n)
  \/ DcReturn

Init == NvIdle /\ ApIdle /\ FIdle /\ DInit

Spec == Init /\ [][Next]_vars

\* ------------------------------------------------------------------------
\* Claims
\* ------------------------------------------------------------------------

\* the case of C1: a stack or a repo whose current view is not empty, whose
\* current server resolves to the desired server, and that has a desired
\* config key other than 'server' whose value differs from the current one,
\* both being present
C1_Differs(desired, current, key) ==
  LET desired_config == DictGetOr(desired, KeyConfig, PyDict(<<>>))
      current_info == CurrentInfo(current)
      desired_norm == normalize_value(DictGet(desired_config, key))
      current_norm == normalize_value(DictGet(current_info, key))
  IN /\ key # KeyServer
     /\ DictHas(desired_config, key)
     /\ DictHas(current_info, key)
     /\ desired_norm # PyNone
     /\ current_norm # PyNone
     /\ ~PyEq(desired_norm, current_norm)

C1_ServerMatches(desired, current, SERVER_ID_TO_NAME) ==
  LET current_info == CurrentInfo(current)
      id == extract_id(PyOr(DictGet(current_info, KeyServerId),
                            DictGet(current_info, KeyServer)))
      desired_server == DictGet(DictGetOr(desired, KeyConfig, PyDict(<<>>)), KeyServer)
  IN /\ Truthy(desired_server)
     /\ PyEq(MapGet(SERVER_ID_TO_NAME, id), desired_server)

\* C1: in that case compare_config completes, reports the resource as
\* modified with a difference for that key, and records no server difference
C1_ModifiedByKey ==
  \A n \in DOMAIN dCompared :
    \A key \in DictKeys(DictGetOr(dDesired[n], KeyConfig, PyDict(<<>>))) :
      ( /\ dKind \in {"stack", "repo"}
        /\ Truthy(CurrentInfo(dFetched[n].detail))
        /\ C1_ServerMatches(dDesired[n], dFetched[n].detail, dServerMap)
        /\ C1_Differs(dDesired[n], dFetched[n].detail, key) )
      => /\ dCompared[n].exc = "none"
         /\ dCompared[n].ret
         /\ \E i \in 1..Len(dCompared[n].differences) :
              dCompared[n].differences[i].key = key
         /\ \A i \in 1..Len(dCompared[n].differences) :
              dCompared[n].differences[i].key # KeyServer

\* the case of C2: the config and the tags of the desired record and of the
\* current detail normalize to equal values
C2_Identical(desired, current) ==
  /\ IsDict(DictGet(current, KeyConfig))
  /\ PyEq(normalize_value(DictGetOr(desired, KeyConfig, PyDict(<<>>))),
          normalize_value(DictGet(current, KeyConfig)))
  /\ PyEq(normalize_value(DictGetOr(desired, KeyTags, PyList(<<>>))),
          normalize_value(DictGetOr(current, KeyTags, PyList(<<>>))))

\* C2: for a resource whose normalized config and tags are identical on both
\* sides compare_config returns false with no difference, whatever the kind
C2_IdenticalUnchanged ==
  \A n \in DOMAIN dCompared :
    C2_Identical(dDesired[n], dFetched[n].detail)
    => /\ dCompared[n].exc = "none"
       /\ ~dCompared[n].ret
       /\ dCompared[n].differences = <<>>

\* C3: a resource whose full detail could not be retrieved, so that the
\* fetcher fell back to the summary or to {name}, is never in the modified
\* set
C3_FallbackNotModified ==
  \A n \in DOMAIN dCompared :
    dFetched[n].error # "none" => ~dCompared[n].ret

\* C5: added = desired - current, removed = current - desired, modified is a
\* subset of the names in both, so modified meets neither added nor removed
C5_Partition ==
  dPc = "done" =>
    /\ dResult.added = {n \in DOMAIN dDesired : n \notin DOMAIN dFetched}
    /\ dResult.removed = {n \in DOMAIN dFetched : n \notin DOMAIN dDesired}
    /\ \A n \in dResult.modified : n \in DOMAIN dDesired /\ n \in DOMAIN dFetched
    /\ dResult.added \cap dResult.modified = {}
    /\ dResult.removed \cap dResult.modified = {}

\* C5's case: a run that ends with a modified resource beside an added one
C5_Witness ==
  /\ dPc = "done"
  /\ dResult.modified # {}
  /\ dResult.added # {}

\* C4: when the parallel fetch returns, the keys of the result are exactly
\* the requested names, whatever the completion order and whichever tasks
\* failed
C4_OneEntryPerName == fPc = "returned" => DOMAIN fDetailed = DOMAIN fByName

\* C4's case: two tasks or more, collected out of the submission order, one
\* of them raised and one fell back
C4_Witness ==
  /\ fPc = "returned"
  /\ \E n, m \in DOMAIN fTask :
       /\ StrLess(n, m)
       /\ \E i, j \in 1..Len(fOrder) : i < j /\ fOrder[i] = m /\ fOrder[j] = n
       /\ fTask[n].res = NoResult
       /\ fTask[m].res.error # "none"

\* C6: a server of the unfiltered list whose name is desired and that the
\* tag-filtered list lacks is in the current set; for stacks and repos the
\* current set is the tag-filtered list
C6_ServerRecovery ==
  fPc = "returned" =>
    /\ fKind = "server" =>
         \A n \in NamesIn(Call(fAllCall).ret.e) \cap fDesired : n \in DOMAIN fDetailed
    /\ fKind # "server" => DOMAIN fDetailed = NamesIn(Call(fTaggedCall).ret.e)

\* C6's case: a desired server that only the unfiltered list holds, the
\* tag-filtered list being empty
C6_Witness ==
  /\ fPc = "returned"
  /\ fKind = "server"
  /\ NamesIn(Call(fTaggedCall).ret.e) = {}
  /\ \E n \in NamesIn(Call(fAllCall).ret.e) \cap fDesired : n \in DOMAIN fDetailed

\* C10: the entry of a name is the valid named detail when one was obtained,
\* by name or else by identifier, and otherwise the summary with an error,
\* also when an exception was raised during the fetch
C10_FetchOrder ==
  \A n \in DOMAIN fTask :
    fTask[n].st = "done" =>
      LET r == fTask[n].res
      IN /\ r.calls \in {<<"name">>, <<"name", "id">>}
         /\ r.calls = <<"name", "id">> => Truthy(ObjId(fByName[n]))
         /\ r.error = "none" => ValidDetail(r.detail)
         /\ r.error # "none" => r.detail = fByName[n]

\* C7: api_read never raises and always returns a list: [] on a transport
\* failure, on a null or empty response and on a mapping whose only key is
\* 'error'; [mapping] for a mapping with 'error' beside other keys and for a
\* single-mapping success response; the list itself when the response is a
\* list
C7_ApiReadShapes ==
  apPc = "done" =>
    /\ apResult.exc = "none"
    /\ IsList(apResult.ret)
    /\ apTransport \in TransportFailures => apResult.ret = PyList(<<>>)
    /\ apTransport = "ok" =>
         /\ ~Truthy(apData) => apResult.ret = PyList(<<>>)
         /\ IsDict(apData) /\ DictKeys(apData) = {KeyError} =>
              apResult.ret = PyList(<<>>)
         /\ IsDict(apData) /\ Truthy(apData) /\ DictKeys(apData) # {KeyError} =>
              apResult.ret = PyList(<<apData>>)
         /\ IsList(apData) => apResult.ret = apData

\* C8: normalization is idempotent, normalize_value(normalize_value(x)) ==
\* normalize_value(x) for every value x
C8_Idempotent == nvPc = "twice" => PyEq(nvTwice, nvOut)

\* C9: normalize_value of a list gives equal results for every reordering
\* of the list
C9_OrderIndependent == nvPc # "start" => PyEq(nvPermOut, nvOut)

=============================================================================
